---- MODULE Spec2Model ----
(***************************************************************************)
(* Sightline front-end: the results page (report polling, screen choice,   *)
(* reveal sequence), the network waterfall (impact score, rows, filter,    *)
(* sort) and the web-vitals cards (severity thresholds, TBT fallback).     *)
(***************************************************************************)
EXTENDS Integers, Sequences, FiniteSets, TLC

VARIABLES
    \* ---- results page, app/results/[id]/page.tsx ----
    phase,          \* "new" (rendered, effects not yet run), "mounted", "unmounted"
    backend,        \* the report status the backend holds
    slots,          \* report requests in flight: free / sent / the response on its way
    report,         \* useState report: "null" or the stored report's status
    loading,        \* useState loading
    error,          \* useState error
    intervalActive, \* the setInterval of the polling effect is armed
    showReveal,     \* useState showReveal
    hasRevealed,    \* useState hasRevealed
    revealZero,     \* a setTimeout(..., 0) of the reveal effect is pending
    revealTimer,    \* the 2.5 s timer of the reveal effect is pending
    slotSummary,    \* the ai_summary each response on its way carries
    summary,        \* the stored report's ai_summary
    insights,       \* what the AI Insights panel rendered
    \* ---- NetworkWaterfall ----
    audits,         \* props.audits: network-requests items and the URL audits
    zoom,           \* useState zoom, in tenths (1.0x = 10)
    sortMode,       \* useState sortMode
    filterType,     \* useState filterType
    chartData,      \* the memoised rows, recomputed when a dependency changes
    markerPos,      \* useState markerPos: <<>> (null) or <<[x, time]>>
    cursor,         \* the mouse: <<>> outside the chart body, or <<[width, x]>> over it
    \* ---- calculateImpactScore on its own ----
    impactArgs,     \* the arguments of a call
    impactResult,   \* <<>> before the call, <<score>> after it
    \* ---- WebVitalsGrid ----
    vitalAudits,    \* props.audits: the four audits, each absent or present
    vitalCards,     \* the cards rendered, in order
    vitalsShown,    \* the grid has rendered
    \* ---- home page, app/page.tsx ----
    homeUrl,        \* useState url
    homeLoading,    \* useState loading
    homeError,      \* useState error
    posts,          \* create-report requests: free / sent / answered
    route,          \* <<>> on the home page, <<"results", id>> after router.push
    \* ---- ScoreGrid ----
    categories,     \* props.categories: given or not, and the four categories
    gauges,         \* the gauges rendered, in order
    gridShown       \* the grid has rendered

pageVars == <<phase, backend, slots, report, loading, error, intervalActive,
              showReveal, hasRevealed, revealZero, revealTimer, slotSummary, summary>>

wfVars == <<audits, zoom, sortMode, filterType, chartData>>

impactVars == <<impactArgs, impactResult>>

vitalVars == <<vitalAudits, vitalCards, vitalsShown>>

markerVars == <<markerPos, cursor>>

insightVars == <<insights>>

homeVars == <<homeUrl, homeLoading, homeError, posts, route>>

gridVars == <<categories, gauges, gridShown>>

vars == <<pageVars, wfVars, impactVars, vitalVars, markerVars, insightVars, homeVars, gridVars>>

----------------------------------------------------------------------------
(* Numbers.  Times are held in half milliseconds, so that fractional times    *)
(* and Math.round are not the identity.  Fractions (the impact score) are     *)
(* exact rationals [n, d] in lowest terms with d > 0.  A missing property     *)
(* and NaN are two values no time or size takes.                              *)

Undef == 0 - 999998

NaN == 0 - 999999

\* n milliseconds, in the model's time unit.
Ms(n) == 2 * n

\* Math.round of a time given in half milliseconds: the nearest whole millisecond,
\* halves going up.
Round(t) == (t + 1) \div 2

Max2(a, b) == IF a >= b THEN a ELSE b

Min2(a, b) == IF a <= b THEN a ELSE b

Abs(x) == IF x < 0 THEN 0 - x ELSE x

RECURSIVE Gcd(_, _)
Gcd(a, b) == IF b = 0 THEN a ELSE Gcd(b, a % b)

\* The fraction n / d (d # 0) in lowest terms.
Q(n, d) ==
    LET g == Gcd(Abs(n), Abs(d))
        sgn == IF d < 0 THEN 0 - 1 ELSE 1
    IN [n |-> sgn * (n \div g), d |-> sgn * (d \div g)]

QAdd(a, b) == Q(a.n * b.d + b.n * a.d, a.d * b.d)

QSub(a, b) == Q(a.n * b.d - b.n * a.d, a.d * b.d)

QMul(a, b) == Q(a.n * b.n, a.d * b.d)

QLe(a, b) == a.n * b.d <= b.n * a.d

QMin(a, b) == IF QLe(a, b) THEN a ELSE b

QMax(a, b) == IF QLe(a, b) THEN b ELSE a

\* The sign of a - b.
QCmp(a, b) == IF a = b THEN 0 ELSE IF QLe(a, b) THEN 0 - 1 ELSE 1

\* x ?? y
Coalesce(x, y) == IF x # Undef THEN x ELSE y

\* x > 0 for a number that may be NaN.
Positive(x) == x # NaN /\ x > 0

----------------------------------------------------------------------------
(* NetworkWaterfall *)

\* multipliers[item.resourceType] || 0.7
multipliers(resourceType) ==
    CASE resourceType = "Script" -> Q(13, 10)
      [] resourceType = "Stylesheet" -> Q(12, 10)
      [] resourceType = "Image" -> Q(10, 10)
      [] resourceType = "Font" -> Q(8, 10)
      [] OTHER -> Q(7, 10)

\* calculateImpactScore with the early-start term added instead of its complement.
calculateImpactScoreLateWeight(item, totalDuration, maxTransferSize, globalStartTime) ==
    LET duration == item.endTime - item.startTime
        normalizedDuration == IF Positive(totalDuration) THEN Q(duration, totalDuration) ELSE Q(0, 1)
        normalizedSize == IF maxTransferSize > 0 THEN Q(item.transferSize, maxTransferSize) ELSE Q(0, 1)
        normalizedStart == IF Positive(totalDuration)
                           THEN Q(item.startTime - globalStartTime, totalDuration) ELSE Q(0, 1)
        impact == QAdd(QAdd(QMul(normalizedDuration, Q(5, 10)), QMul(normalizedSize, Q(3, 10))),
                       QMul(normalizedStart, Q(2, 10)))
    IN QMin(Q(1, 1), QMax(Q(0, 1), QMul(impact, multipliers(item.resourceType))))

\* calculateImpactScore without the final Math.min(1, Math.max(0, impact)).
calculateImpactScoreUnclamped(item, totalDuration, maxTransferSize, globalStartTime) ==
    LET duration == item.endTime - item.startTime
        normalizedDuration == IF Positive(totalDuration) THEN Q(duration, totalDuration) ELSE Q(0, 1)
        normalizedSize == IF maxTransferSize > 0 THEN Q(item.transferSize, maxTransferSize) ELSE Q(0, 1)
        normalizedStart == IF Positive(totalDuration)
                           THEN Q(item.startTime - globalStartTime, totalDuration) ELSE Q(0, 1)
        earlyWeight == QSub(Q(1, 1), normalizedStart)
        impact == QAdd(QAdd(QMul(normalizedDuration, Q(5, 10)), QMul(normalizedSize, Q(3, 10))),
                       QMul(earlyWeight, Q(2, 10)))
    IN QMul(impact, multipliers(item.resourceType))

calculateImpactScore(item, totalDuration, maxTransferSize, globalStartTime) ==
    LET duration == item.endTime - item.startTime
        normalizedDuration == IF Positive(totalDuration) THEN Q(duration, totalDuration) ELSE Q(0, 1)
        normalizedSize == IF maxTransferSize > 0 THEN Q(item.transferSize, maxTransferSize) ELSE Q(0, 1)
        normalizedStart == IF Positive(totalDuration)
                           THEN Q(item.startTime - globalStartTime, totalDuration) ELSE Q(0, 1)
        earlyWeight == QSub(Q(1, 1), normalizedStart)
        impact == QAdd(QAdd(QMul(normalizedDuration, Q(5, 10)), QMul(normalizedSize, Q(3, 10))),
                       QMul(earlyWeight, Q(2, 10)))
        multiplier == multipliers(item.resourceType)
    IN QMin(Q(1, 1), QMax(Q(0, 1), QMul(impact, multiplier)))

getImpactLevel(score) ==
    IF QLe(Q(6, 10), score) THEN "high"
    ELSE IF QLe(Q(3, 10), score) THEN "medium"
    ELSE "low"

RECURSIVE Pow1024(_)
Pow1024(i) == IF i = 0 THEN 1 ELSE 1024 * Pow1024(i - 1)

\* formatSize: the size with one decimal (held in tenths) and its unit; the unit
\* index is floor(log(bytes) / log(1024)), and sizes[] has three entries.
formatSize(bytes) ==
    IF bytes = 0 THEN [tenths |-> 0, unit |-> "B"]
    ELSE LET i == IF bytes < Pow1024(1) THEN 0 ELSE IF bytes < Pow1024(2) THEN 1
                  ELSE IF bytes < Pow1024(3) THEN 2 ELSE 3
             k == Pow1024(i)
         IN [tenths |-> (20 * bytes + k) \div (2 * k),
             unit |-> CASE i = 0 -> "B" [] i = 1 -> "KB" [] i = 2 -> "MB" [] OTHER -> "undefined"]

\* The URL compared as it is, query string included.
normalizeUrlKeepsQuery(url) == url

\* url.split('?')[0], for a URL held as [dir, file, query].
normalizeUrl(url) == [url EXCEPT !.query = ""]

\* The array a map() call returns, given as a function on 1..n.
Array(f) == SubSeq(f, 1, Len(f))

renderBlockingSet(a) == {normalizeUrl(u) : u \in a.urlAudits.renderBlocking}

optimizedImageSet(a) ==
    {normalizeUrl(u) : u \in a.urlAudits.modernImageFormats \cup a.urlAudits.usesOptimizedImages
                            \cup a.urlAudits.usesWebpImages}

SetMin(S) == CHOOSE x \in S : \A y \in S : x <= y

SetMax(S) == CHOOSE x \in S : \A y \in S : x >= y

\* item.startTime ?? item.networkRequestTime, and the same for the end.
StartOf(r) == Coalesce(r.startTime, r.networkRequestTime)

EndOf(r) == Coalesce(r.endTime, r.networkEndTime)

\* globalStats with the first request's start taken for the earliest.
globalStatsFirstStart(a) ==
    LET raw == a.items
        valid == {i \in DOMAIN raw : StartOf(raw[i]) # Undef}
        start == StartOf(raw[SetMin(valid)])
        end == IF \E i \in valid : EndOf(raw[i]) = Undef THEN NaN
               ELSE SetMax({EndOf(raw[i]) : i \in valid})
    IN IF valid = {}
       THEN [startTime |-> 0, endTime |-> 0, duration |-> 0, maxTransferSize |-> 0]
       ELSE [startTime |-> start,
             endTime |-> end,
             duration |-> IF end = NaN THEN NaN ELSE Max2(Ms(1), end - start),
             maxTransferSize |-> SetMax({Coalesce(raw[i].transferSize, 0) : i \in valid})]

\* globalStats.  Math.max over a list holding undefined is NaN, and so is every
\* number computed from it.
globalStats(a) ==
    LET raw == a.items
        valid == {i \in DOMAIN raw : StartOf(raw[i]) # Undef}
        start == SetMin({StartOf(raw[i]) : i \in valid})
        end == IF \E i \in valid : EndOf(raw[i]) = Undef THEN NaN
               ELSE SetMax({EndOf(raw[i]) : i \in valid})
    IN IF valid = {}
       THEN [startTime |-> 0, endTime |-> 0, duration |-> 0, maxTransferSize |-> 0]
       ELSE [startTime |-> start,
             endTime |-> end,
             duration |-> IF end = NaN THEN NaN ELSE Max2(Ms(1), end - start),
             maxTransferSize |-> SetMax({Coalesce(raw[i].transferSize, 0) : i \in valid})]

\* The least length of the time axis, in milliseconds.
AxisFloorMs == 28000

\* Math.max(globalStats.duration, 28000): the upper end of the domain of both
\* time axes, and the handler's displayDuration.  Math.max of NaN is NaN.
displayDuration(a) ==
    IF globalStats(a).duration = NaN THEN NaN
    ELSE Max2(globalStats(a).duration, Ms(AxisFloorMs))


\* chartData, rawRequests: each audit item with its defaults applied.  A missing
\* resourceType is held as "", which is what item.resourceType || '' makes of it.
rawRequests(a) ==
    Array([i \in DOMAIN a.items |->
        [url |-> a.items[i].url,
         startTime |-> Coalesce(StartOf(a.items[i]), 0),
         endTime |-> Coalesce(EndOf(a.items[i]), 0),
         transferSize |-> Coalesce(a.items[i].transferSize, 0),
         resourceType |-> a.items[i].resourceType]])

\* The impact score of every request of the audit.
impactScores(a) ==
    LET stats == globalStats(a)
        raw == rawRequests(a)
    IN Array([i \in DOMAIN raw |->
           calculateImpactScore(raw[i], stats.duration, stats.maxTransferSize, stats.startTime)])

\* chartData, transformed: the row of each request, given the requests' scores.
transformed(a, scores) ==
    LET stats == globalStats(a)
        raw == rawRequests(a)
    IN Array([index \in DOMAIN raw |->
        LET item == raw[index]
            start == Max2(0, item.startTime - stats.startTime)
            duration == Max2(Ms(1), item.endTime - item.startTime)
        IN [id |-> index,
            name |-> IF item.url.file # "" THEN item.url.file ELSE item.url.dir,
            url |-> item.url,
            start |-> Round(start),
            duration |-> Round(duration),
            size |-> item.transferSize,
            fullSize |-> formatSize(item.transferSize),
            impactScore |-> scores[index],
            impactLevel |-> getImpactLevel(scores[index]),
            isOptimizedImage |-> item.resourceType = "Image"
                                 /\ normalizeUrl(item.url) \in optimizedImageSet(a),
            isRenderBlockingScript |-> item.resourceType = "Script"
                                       /\ normalizeUrl(item.url) \in renderBlockingSet(a),
            resourceType |-> item.resourceType]])

\* The filter with the 'Fetch' button left out, as in the filterType type.
filterRowsTyped(rows, ft) ==
    IF ft \in {"Script", "Stylesheet", "Image", "Font"}
    THEN SelectSeq(rows, LAMBDA item : item.resourceType = ft)
    ELSE rows

\* The filter that also hides the rows of low impact.
filterRowsHidesLow(rows, ft) ==
    IF ft # "All"
    THEN SelectSeq(rows, LAMBDA item : item.resourceType = ft /\ item.impactLevel # "low")
    ELSE rows

\* chartData: if (filterType !== 'All') transformed.filter(...)
filterRows(rows, ft) ==
    IF ft # "All"
    THEN SelectSeq(rows, LAMBDA item : item.resourceType = ft)
    ELSE rows

\* The comparator with the size order reversed.
compareRowsSizeAscending(x, y, sm) ==
    CASE sm = "start" -> x.start - y.start
      [] sm = "duration" -> y.duration - x.duration
      [] sm = "size" -> x.size - y.size
      [] OTHER -> QCmp(y.impactScore, x.impactScore)

\* The comparator handed to sort: negative when x goes first.
compareRows(x, y, sm) ==
    CASE sm = "start" -> x.start - y.start
      [] sm = "duration" -> y.duration - x.duration
      [] sm = "size" -> y.size - x.size
      [] OTHER -> QCmp(y.impactScore, x.impactScore)

\* Array.prototype.sort: a stable sort by the comparator.
RECURSIVE InsertRow(_, _, _)
InsertRow(rows, x, sm) ==
    IF rows = <<>> THEN <<x>>
    ELSE IF compareRows(Head(rows), x, sm) > 0 THEN <<x>> \o rows
    ELSE <<Head(rows)>> \o InsertRow(Tail(rows), x, sm)

RECURSIVE sortRows(_, _)
sortRows(rows, sm) ==
    IF rows = <<>> THEN <<>>
    ELSE InsertRow(sortRows(SubSeq(rows, 1, Len(rows) - 1), sm), rows[Len(rows)], sm)

\* chartData for given scores: transform, filter, sort.
chartDataWith(a, ft, sm, scores) == sortRows(filterRows(transformed(a, scores), ft), sm)

\* The chartData memo.
chartDataOf(a, ft, sm) == chartDataWith(a, ft, sm, impactScores(a))

getBarColor(data) ==
    IF data.isRenderBlockingScript THEN "#a855f7"
    ELSE IF data.isOptimizedImage THEN "#3b82f6"
    ELSE IF data.impactLevel = "high" THEN "#ef4444"
    ELSE IF data.impactLevel = "medium" THEN "#f59e0b"
    ELSE "#10b981"

\* What CustomTooltip shows for a row; the impact percentage is
\* Math.round(impactScore * 100).
CustomTooltip(data) ==
    [url |-> data.url,
     start |-> data.start,
     duration |-> data.duration,
     size |-> data.fullSize,
     impact |-> [level |-> data.impactLevel,
                 percent |-> (200 * data.impactScore.n + data.impactScore.d)
                             \div (2 * data.impactScore.d)],
     type |-> data.resourceType]

\* What CustomYAxisTick shows for a row.
CustomYAxisTick(data) ==
    [name |-> data.name, resourceType |-> data.resourceType, fullSize |-> data.fullSize]

\* The stacked bars of a row: a transparent bar of length start, then the
\* coloured bar of length duration.
BarOf(data) == [begin |-> data.start, length |-> data.duration, fill |-> getBarColor(data)]

\* The component returns null when there are no rows; otherwise the controls, the
\* axes and the rows are rendered.
Rendered == Len(chartData) # 0

\* Items a network-requests audit may have.
MaxItems == 2

Url(dir, file, query) == [dir |-> dir, file |-> file, query |-> query]

Item(url, startTime, networkRequestTime, endTime, networkEndTime, transferSize, resourceType) ==
    [url |-> url, startTime |-> startTime, networkRequestTime |-> networkRequestTime,
     endTime |-> endTime, networkEndTime |-> networkEndTime,
     transferSize |-> transferSize, resourceType |-> resourceType]

\* Audit items the model draws from: whole and fractional times, a request of no
\* duration, times under the newer property names, an unfinished request, a
\* request with no times at all, missing sizes and types, equal sizes.
SampleItems ==
    { Item(Url("/js/", "a.js", "?v=1"), 0, Undef, 4, Undef, 20, "Script"),
      Item(Url("/img/", "hero.jpg", ""), 3, Undef, 3, Undef, 0, "Image"),
      Item(Url("/font/", "c.woff", ""), Undef, 2, Undef, 5, 5, "Font"),
      Item(Url("/api/", "data", ""), 1, Undef, 2, Undef, Undef, "Fetch"),
      Item(Url("/css/", "s.css", ""), 2, Undef, Undef, Undef, 5, "Stylesheet"),
      Item(Url("https://x.test/", "", ""), Undef, Undef, Undef, Undef, 30, ""),
      Item(Url("/js/", "app.js", ""), 4, Undef, 6, Undef, 20, "Script"),
      Item(Url("/img/", "b.png", "?w=1"), 1, Undef, 5, Undef, 30, "Image") }

\* The URL audits of the report: they name a.js and b.png, under other query
\* strings than the requests carry, and no other request.
SampleUrlAudits ==
    [renderBlocking |-> {Url("/js/", "a.js", "?v=2")},
     modernImageFormats |-> {Url("/img/", "b.png", "")},
     usesOptimizedImages |-> {},
     usesWebpImages |-> {Url("/img/", "b.png", "?w=9")}]

ItemLists == UNION {[1..n -> SampleItems] : n \in 0..MaxItems}

FilterTypes == {"All", "Script", "Stylesheet", "Image", "Font", "Fetch"}

SortModes == {"start", "duration", "impact", "size"}

\* Slider positions the model tries, in tenths: the two ends of the range.
ZoomValues == {10, 50}

NoAudits == [items |-> <<>>, urlAudits |-> SampleUrlAudits]

WfIdle ==
    /\ audits = NoAudits
    /\ zoom = 10
    /\ sortMode = "start"
    /\ filterType = "All"
    /\ chartData = <<>>
    /\ markerPos = <<>>
    /\ cursor = <<>>

WfInit ==
    /\ audits \in {[items |-> its, urlAudits |-> SampleUrlAudits] : its \in ItemLists}
    /\ zoom = 10
    /\ sortMode = "start"
    /\ filterType = "All"
    /\ chartData = chartDataOf(audits, filterType, sortMode)
    /\ markerPos = <<>>
    /\ cursor = <<>>

\* The zoom slider's onChange; zoom is no dependency of the chartData memo.
setZoom(z) ==
    /\ UNCHANGED <<pageVars, impactVars, vitalVars, markerVars, insightVars, homeVars, gridVars>>
    /\ Rendered
    /\ z # zoom
    /\ zoom' = z
    /\ UNCHANGED <<audits, sortMode, filterType, chartData>>

\* A sort button that also resets the filter.
setSortModeClearsFilter(mode) ==
    /\ UNCHANGED <<pageVars, impactVars, vitalVars, markerVars, insightVars, homeVars, gridVars>>
    /\ Rendered
    /\ mode # sortMode
    /\ sortMode' = mode
    /\ filterType' = "All"
    /\ chartData' = chartDataOf(audits, "All", mode)
    /\ UNCHANGED <<audits, zoom>>

\* A sort button's onClick.
setSortMode(mode) ==
    /\ UNCHANGED <<pageVars, impactVars, vitalVars, markerVars, insightVars, homeVars, gridVars>>
    /\ Rendered
    /\ mode # sortMode
    /\ sortMode' = mode
    /\ chartData' = chartDataOf(audits, filterType, mode)
    /\ UNCHANGED <<audits, zoom, filterType>>

\* A filter button's onClick.
setFilterType(type) ==
    /\ UNCHANGED <<pageVars, impactVars, vitalVars, markerVars, insightVars, homeVars, gridVars>>
    /\ Rendered
    /\ type # filterType
    /\ filterType' = type
    /\ chartData' = chartDataOf(audits, type, sortMode)
    /\ UNCHANGED <<audits, zoom, sortMode>>

\* Widths of the scroll container the model tries, in pixels: one that leaves no
\* room for the grid beside the 370 px of label column and margins, and a wider one.
Viewports == {370, 470}

\* Cursor positions, in pixels from the left edge of the chart body.
CursorXs == {200, 269, 270, 320, 370, 371, 1750}

\* The chart body is as wide as its parent, whose width is (100 * zoom) %.
BodyWidth(viewport) == (viewport * zoom) \div 10

\* Math.round((relativeX / gridWidth) * displayDuration), in whole milliseconds,
\* for displayDuration in half milliseconds; 0 / 0 is NaN.
MarkerTime(relativeX, gridWidth, display) ==
    IF gridWidth = 0 THEN NaN
    ELSE (relativeX * display + gridWidth) \div (2 * gridWidth)

\* Values the zoom slider is asked to take, in tenths: below, at, between, and
\* above its ends.
SliderInputs == {0, 10, 30, 50, 51, 120}

\* The slider's value taken as it is asked for.
RangeValueUnclamped(raw) == raw

\* The value of <input type="range" min="1" max="5" step="0.1">, in tenths: the
\* input keeps its value between min and max.
RangeValue(raw) == Min2(50, Max2(10, raw))

\* The slider's onChange with the input's value.
zoomSlider(raw) == setZoom(RangeValue(raw))

\* zoom > 10, the test of lines 328 and 351 for hiding the resource-name column.
isYAxisHidden == zoom > 100

\* handleMouseMoveHandler, for the mouse moving to x over a chart body of the
\* given width.  The slider keeps zoom at 5.0 or less, so the zoom > 10 test for
\* the hidden label column is never true.
handleMouseMoveHandler(viewport, x) ==
    /\ UNCHANGED <<pageVars, wfVars, impactVars, vitalVars, insightVars, homeVars, gridVars>>
    /\ Rendered
    /\ x <= BodyWidth(viewport)
    /\ cursor # <<[width |-> BodyWidth(viewport), x |-> x]>>
    /\ cursor' = <<[width |-> BodyWidth(viewport), x |-> x]>>
    /\ IF globalStats(audits).duration \in {0, NaN}
       THEN markerPos' = markerPos
       ELSE LET yAxisWidth == IF isYAxisHidden THEN 0 ELSE 260
                marginLeft == 10
                marginRight == 100
                totalLeftOffset == yAxisWidth + marginLeft
                gridWidth == BodyWidth(viewport) - totalLeftOffset - marginRight
                relativeX == x - totalLeftOffset
            IN IF relativeX >= 0 /\ relativeX <= gridWidth
               THEN markerPos' = <<[x |-> x,
                                    time |-> MarkerTime(relativeX, gridWidth, displayDuration(audits))]>>
               ELSE markerPos' = <<>>

\* onMouseLeave of the scroll container.
onMouseLeave ==
    /\ UNCHANGED <<pageVars, wfVars, impactVars, vitalVars, insightVars, homeVars, gridVars>>
    /\ Rendered
    /\ cursor # <<>>
    /\ cursor' = <<>>
    /\ markerPos' = <<>>

\* A request that ends after the 28 s the time axis always spans.
LongItem == Item(Url("/video/", "intro.mp4", ""), 0, Undef, Ms(30000), Undef, 30, "Media")

\* The waterfall with the mouse over it.
MarkerInit ==
    /\ audits \in {[items |-> its, urlAudits |-> SampleUrlAudits] : its \in ItemLists \cup {<<LongItem>>}}
    /\ zoom = 10
    /\ sortMode = "start"
    /\ filterType = "All"
    /\ chartData = chartDataOf(audits, filterType, sortMode)
    /\ markerPos = <<>>
    /\ cursor = <<>>

MarkerNext ==
    \/ \E raw \in SliderInputs : zoomSlider(raw)
    \/ \E viewport \in Viewports, x \in CursorXs : handleMouseMoveHandler(viewport, x)
    \/ onMouseLeave

WfNext ==
    \/ \E z \in ZoomValues : setZoom(z)
    \/ \E mode \in SortModes : setSortMode(mode)
    \/ \E type \in FilterTypes : setFilterType(type)

----------------------------------------------------------------------------
(* calculateImpactScore on its own *)

\* Largest time and largest size among the arguments tried.
ImpactMaxTime == 3

ImpactMaxSize == 2

ResourceTypes == {"Script", "Stylesheet", "Image", "Font", "Fetch", ""}

ImpactArgSets ==
    [startTime : 0..ImpactMaxTime,
     endTime : 0..ImpactMaxTime,
     transferSize : 0..ImpactMaxSize,
     resourceType : ResourceTypes,
     totalDuration : {NaN, 0 - 1} \cup (0..ImpactMaxTime),
     maxTransferSize : 0..ImpactMaxSize,
     globalStartTime : 0..1]

ImpactIdle ==
    /\ impactArgs = CHOOSE x \in ImpactArgSets :
                        /\ x.startTime = 0 /\ x.endTime = 0 /\ x.transferSize = 0
                        /\ x.resourceType = "" /\ x.totalDuration = 0
                        /\ x.maxTransferSize = 0 /\ x.globalStartTime = 0
    /\ impactResult = <<>>

ImpactInit ==
    /\ impactArgs \in ImpactArgSets
    /\ impactResult = <<>>

\* One call of calculateImpactScore.
ImpactCall ==
    /\ impactResult = <<>>
    /\ impactResult' =
         <<calculateImpactScore(
              [startTime |-> impactArgs.startTime, endTime |-> impactArgs.endTime,
               transferSize |-> impactArgs.transferSize,
               resourceType |-> impactArgs.resourceType],
              impactArgs.totalDuration, impactArgs.maxTransferSize,
              impactArgs.globalStartTime)>>
    /\ UNCHANGED <<impactArgs, pageVars, wfVars, vitalVars, markerVars, insightVars, homeVars, gridVars>>

ImpactNext == ImpactCall

----------------------------------------------------------------------------
(* WebVitalsGrid.  A numericValue is held in hundredths (2500 ms = 250000,    *)
(* a layout shift of 0.1 = 10); Undef is a numericValue the audit lacks.      *)

\* The number whole + hundredths / 100, in hundredths.
Dec(whole, hundredths) == 100 * whole + hundredths

\* value <= limit, which is false when value is not a number.
NumLe(value, limit) == value # Undef /\ value # NaN /\ value <= limit

\* getSeverity with the TBT limit used for INP as well.
getSeverityInpAsTbt(id, value, isTBTFallback) ==
    IF isTBTFallback \/ id = "inp"
    THEN IF NumLe(value, Dec(200, 0)) THEN "good"
         ELSE IF NumLe(value, Dec(600, 0)) THEN "needs-improvement"
         ELSE "poor"
    ELSE CASE id = "lcp" ->
                 IF NumLe(value, Dec(2500, 0)) THEN "good"
                 ELSE IF NumLe(value, Dec(4000, 0)) THEN "needs-improvement"
                 ELSE "poor"
           [] id = "cls" ->
                 IF NumLe(value, Dec(0, 10)) THEN "good"
                 ELSE IF NumLe(value, Dec(0, 25)) THEN "needs-improvement"
                 ELSE "poor"
           [] OTHER -> "poor"

getSeverity(id, value, isTBTFallback) ==
    IF isTBTFallback
    THEN IF NumLe(value, Dec(200, 0)) THEN "good"
         ELSE IF NumLe(value, Dec(600, 0)) THEN "needs-improvement"
         ELSE "poor"
    ELSE CASE id = "lcp" ->
                 IF NumLe(value, Dec(2500, 0)) THEN "good"
                 ELSE IF NumLe(value, Dec(4000, 0)) THEN "needs-improvement"
                 ELSE "poor"
           [] id = "inp" ->
                 IF NumLe(value, Dec(200, 0)) THEN "good"
                 ELSE IF NumLe(value, Dec(500, 0)) THEN "needs-improvement"
                 ELSE "poor"
           [] id = "cls" ->
                 IF NumLe(value, Dec(0, 10)) THEN "good"
                 ELSE IF NumLe(value, Dec(0, 25)) THEN "needs-improvement"
                 ELSE "poor"
           [] OTHER -> "poor"

AuditKeys == {"largest-contentful-paint", "cumulative-layout-shift",
              "interaction-to-next-paint", "total-blocking-time"}

\* An audit of the report: <<>> when the report has none under that key.
NoAudit == <<>>

AuditData(key, numericValue) == <<[id |-> key, numericValue |-> numericValue]>>

\* !audit
Missing(audit) == audit = NoAudit

\* The fallback test with the INP check lost.
isTBTFallbackAnyTbt(a) == ~Missing(a["total-blocking-time"])

\* isTBTFallback = !inpAudit && !!tbtAudit
isTBTFallback(a) ==
    Missing(a["interaction-to-next-paint"]) /\ ~Missing(a["total-blocking-time"])

\* finalInteractivityData = inpAudit || tbtAudit
finalInteractivityData(a) ==
    IF ~Missing(a["interaction-to-next-paint"]) THEN a["interaction-to-next-paint"]
    ELSE a["total-blocking-time"]

\* The vitals array of WebVitalsGrid.
vitals(a) ==
    << [id |-> "lcp", title |-> "Largest Contentful Paint", short |-> "LCP",
        data |-> a["largest-contentful-paint"], isFallback |-> FALSE],
       [id |-> "inp",
        title |-> IF isTBTFallback(a) THEN "Total Blocking Time (INP Proxy)"
                  ELSE "Interaction to Next Paint",
        short |-> IF isTBTFallback(a) THEN "TBT" ELSE "INP",
        data |-> finalInteractivityData(a), isFallback |-> isTBTFallback(a)],
       [id |-> "cls", title |-> "Cumulative Layout Shift", short |-> "CLS",
        data |-> a["cumulative-layout-shift"], isFallback |-> FALSE] >>

\* vitals.map(...): no card for a vital without data, else the card with its
\* severity.
WebVitalsGrid(a) ==
    LET shown == SelectSeq(vitals(a), LAMBDA vital : ~Missing(vital.data))
    IN Array([k \in DOMAIN shown |->
           [id |-> shown[k].id, short |-> shown[k].short, title |-> shown[k].title,
            data |-> shown[k].data[1],
            severity |-> getSeverity(shown[k].id, shown[k].data[1].numericValue,
                                     shown[k].isFallback)]])

\* Values tried for each audit: every limit that could apply to it, the value
\* just above the limit, zero, and a missing numericValue.
PaintValues == {Undef, 0, Dec(2500, 0), Dec(2500, 1), Dec(4000, 0), Dec(4000, 1)}

BlockingValues ==
    {Undef, 0, Dec(200, 0), Dec(200, 1), Dec(500, 0), Dec(500, 1), Dec(600, 0), Dec(600, 1)}

ShiftValues == {Undef, 0, Dec(0, 10), Dec(0, 11), Dec(0, 25), Dec(0, 26)}

ValuesOf(key) ==
    CASE key = "largest-contentful-paint" -> PaintValues
      [] key = "cumulative-layout-shift" -> ShiftValues
      [] OTHER -> BlockingValues

AuditChoices(key) == {NoAudit} \cup {AuditData(key, v) : v \in ValuesOf(key)}

AuditSets ==
    {[k \in AuditKeys |->
        CASE k = "largest-contentful-paint" -> lcp
          [] k = "cumulative-layout-shift" -> cls
          [] k = "interaction-to-next-paint" -> inp
          [] OTHER -> tbt] :
     lcp \in AuditChoices("largest-contentful-paint"),
     cls \in AuditChoices("cumulative-layout-shift"),
     inp \in AuditChoices("interaction-to-next-paint"),
     tbt \in AuditChoices("total-blocking-time")}

VitalIdle ==
    /\ vitalAudits = [k \in AuditKeys |-> NoAudit]
    /\ vitalCards = <<>>
    /\ vitalsShown = FALSE

VitalInit ==
    /\ vitalAudits \in AuditSets
    /\ vitalCards = <<>>
    /\ vitalsShown = FALSE

\* The grid renders.
VitalRender ==
    /\ ~vitalsShown
    /\ vitalsShown' = TRUE
    /\ vitalCards' = WebVitalsGrid(vitalAudits)
    /\ UNCHANGED <<vitalAudits, pageVars, wfVars, impactVars, markerVars, insightVars, homeVars, gridVars>>

VitalNext == VitalRender

----------------------------------------------------------------------------
(* Results page *)

\* Requests that may be outstanding at once in the model.
MaxInflight == 2

Slots == 1..MaxInflight

Statuses == {"pending", "processing", "completed", "failed"}

Terminal == {"completed", "failed"}

NoReport == "null"

FetchError == "Failed to fetch report"

\* A text (ai_summary, a message) is a sequence of tokens; '' is <<>>, and null is
\* held as a text no string equals.
NoSummary == <<"(null)">>

\* A string in a condition: null and '' are falsy.
Truthy(text) == text # NoSummary /\ text # <<>>

\* The ai_summary values the backend sends to the polling page: null, '' and a text.
SummaryValues == {NoSummary, <<>>, <<"text">>}

\* The screen ResultPage returns for the current state.
Screen ==
    IF loading /\ report \in {NoReport, "pending", "processing"} THEN "loading"
    ELSE IF error # "" \/ report = "failed" THEN "failed"
    ELSE IF report = NoReport THEN "blank"
    ELSE "dashboard"

\* The failure message with the recorded error put before the report's summary.
FailureMessageErrorFirst ==
    IF error # "" THEN <<error>>
    ELSE IF Truthy(summary) THEN summary
    ELSE <<"Unknown error occurred">>

\* The message of the 'Audit Failed' screen:
\* report?.ai_summary || error || 'Unknown error occurred'.
FailureMessage ==
    IF Truthy(summary) THEN summary
    ELSE IF error # "" THEN <<error>>
    ELSE <<"Unknown error occurred">>

PageInit ==
    /\ phase = "new"
    /\ backend = "pending"
    /\ slots = [i \in Slots |-> "free"]
    /\ report = NoReport
    /\ loading = TRUE
    /\ error = ""
    /\ intervalActive = FALSE
    /\ showReveal = FALSE
    /\ hasRevealed = FALSE
    /\ revealZero = FALSE
    /\ revealTimer = FALSE
    /\ slotSummary = [i \in Slots |-> NoSummary]
    /\ summary = NoSummary

\* The lowest free slot takes the next request.
FreeSlot == CHOOSE i \in Slots : slots[i] = "free" /\ \A j \in Slots : slots[j] = "free" => i <= j

\* The polling effect on mount: fetchReport() at once, then setInterval(fetchReport, 2000).
Mount ==
    /\ UNCHANGED <<wfVars, impactVars, vitalVars, markerVars, insightVars, homeVars, gridVars>>
    /\ phase = "new"
    /\ phase' = "mounted"
    /\ slots' = [slots EXCEPT ![FreeSlot] = "sent"]
    /\ intervalActive' = TRUE
    /\ UNCHANGED <<backend, report, loading, error, showReveal, hasRevealed,
                   revealZero, revealTimer, slotSummary, summary>>

\* The interval fires: fetchReport starts another GET, whatever is still outstanding.
Tick ==
    /\ UNCHANGED <<wfVars, impactVars, vitalVars, markerVars, insightVars, homeVars, gridVars>>
    /\ intervalActive
    /\ \E i \in Slots : slots[i] = "free"
    /\ slots' = [slots EXCEPT ![FreeSlot] = "sent"]
    /\ UNCHANGED <<phase, backend, report, loading, error, intervalActive,
                   showReveal, hasRevealed, revealZero, revealTimer, slotSummary, summary>>

\* The backend pipeline moves the report on.
BackendAdvance ==
    /\ UNCHANGED <<wfVars, impactVars, vitalVars, markerVars, insightVars, homeVars, gridVars>>
    /\ \/ backend = "pending" /\ backend' = "processing"
       \/ backend = "processing" /\ backend' = "completed"
    /\ UNCHANGED <<phase, slots, report, loading, error, intervalActive,
                   showReveal, hasRevealed, revealZero, revealTimer, slotSummary, summary>>

BackendFail ==
    /\ UNCHANGED <<wfVars, impactVars, vitalVars, markerVars, insightVars, homeVars, gridVars>>
    /\ backend \in {"pending", "processing"}
    /\ backend' = "failed"
    /\ UNCHANGED <<phase, slots, report, loading, error, intervalActive,
                   showReveal, hasRevealed, revealZero, revealTimer, slotSummary, summary>>

\* The backend answers a request with the report as it is now; its ai_summary is
\* whatever the backend holds then.
Respond(i) ==
    /\ UNCHANGED <<wfVars, impactVars, vitalVars, markerVars, insightVars, homeVars, gridVars>>
    /\ slots[i] = "sent"
    /\ slots' = [slots EXCEPT ![i] = backend]
    /\ \E text \in SummaryValues : slotSummary' = [slotSummary EXCEPT ![i] = text]
    /\ UNCHANGED <<phase, backend, report, loading, error, intervalActive,
                   showReveal, hasRevealed, revealZero, revealTimer, summary>>

\* The request fails (network error or error status): axios.get rejects.
RespondError(i) ==
    /\ UNCHANGED <<wfVars, impactVars, vitalVars, markerVars, insightVars, homeVars, gridVars>>
    /\ slots[i] = "sent"
    /\ slots' = [slots EXCEPT ![i] = "error"]
    /\ UNCHANGED <<phase, backend, report, loading, error, intervalActive,
                   showReveal, hasRevealed, revealZero, revealTimer, slotSummary, summary>>

\* The reveal effect, deps [report?.status, hasRevealed], after the status went
\* from old to new: the previous run's cleanup clears its 2.5 s timer, and the new
\* run arms setTimeout(0) and the 2.5 s timer when the report is completed and not
\* yet revealed.
RevealEffect(old, new) ==
    IF old = new
    THEN UNCHANGED <<revealZero, revealTimer>>
    ELSE IF new = "completed" /\ ~hasRevealed
         THEN revealZero' = TRUE /\ revealTimer' = TRUE
         ELSE revealZero' = revealZero /\ revealTimer' = FALSE

\* ProcessData with the terminal-status test lost: any response stops the polling.
ProcessDataAlwaysClear(data) ==
    /\ report' = data.status
    /\ summary' = data.ai_summary
    /\ loading' = IF data.status \in Terminal THEN FALSE ELSE loading
    /\ intervalActive' = FALSE
    /\ error' = error
    /\ RevealEffect(report, data.status)

\* fetchReport after the await, try branch: setReport(data), and on a terminal
\* status setLoading(false) and clearInterval.
ProcessData(data) ==
    /\ report' = data.status
    /\ summary' = data.ai_summary
    /\ loading' = IF data.status \in Terminal THEN FALSE ELSE loading
    /\ intervalActive' = IF data.status \in Terminal THEN FALSE ELSE intervalActive
    /\ error' = error
    /\ RevealEffect(report, data.status)

\* ProcessError with the clearInterval of the catch branch lost.
ProcessErrorNoClear ==
    /\ error' = FetchError
    /\ loading' = FALSE
    /\ intervalActive' = intervalActive
    /\ report' = report
    /\ summary' = summary
    /\ UNCHANGED <<revealZero, revealTimer>>

\* fetchReport, catch branch.
ProcessError ==
    /\ error' = FetchError
    /\ loading' = FALSE
    /\ intervalActive' = FALSE
    /\ report' = report
    /\ summary' = summary
    /\ UNCHANGED <<revealZero, revealTimer>>

\* A response reaches the page, in any order. After unmount the state setters do
\* nothing; clearInterval finds the interval already cleared.
Deliver(i) ==
    /\ UNCHANGED <<wfVars, impactVars, vitalVars, markerVars, insightVars, homeVars, gridVars>>
    /\ slots[i] \in Statuses \cup {"error"}
    /\ slots' = [slots EXCEPT ![i] = "free"]
    /\ slotSummary' = [slotSummary EXCEPT ![i] = NoSummary]
    /\ IF phase = "mounted"
       THEN IF slots[i] = "error" THEN ProcessError
            ELSE ProcessData([status |-> slots[i], ai_summary |-> slotSummary[i]])
       ELSE UNCHANGED <<report, summary, loading, error, intervalActive, revealZero,
                        revealTimer>>
    /\ UNCHANGED <<phase, backend, showReveal, hasRevealed>>

\* setTimeout(() => setShowReveal(true), 0); no cleanup cancels it.
RevealShow ==
    /\ UNCHANGED <<wfVars, impactVars, vitalVars, markerVars, insightVars, homeVars, gridVars>>
    /\ revealZero
    /\ revealZero' = FALSE
    /\ showReveal' = IF phase = "mounted" THEN TRUE ELSE showReveal
    /\ UNCHANGED <<phase, backend, slots, report, loading, error, intervalActive,
                   hasRevealed, revealTimer, slotSummary, summary>>

\* The 2.5 s timer: setShowReveal(false); setHasRevealed(true). A 0 ms timer armed
\* with it has fired by then.
RevealDone ==
    /\ UNCHANGED <<wfVars, impactVars, vitalVars, markerVars, insightVars, homeVars, gridVars>>
    /\ revealTimer
    /\ ~revealZero
    /\ revealTimer' = FALSE
    /\ showReveal' = FALSE
    /\ hasRevealed' = TRUE
    /\ UNCHANGED <<phase, backend, slots, report, loading, error, intervalActive,
                   revealZero, slotSummary, summary>>

\* The page goes away: both effects' cleanups run.
Unmount ==
    /\ UNCHANGED <<wfVars, impactVars, vitalVars, markerVars, insightVars, homeVars, gridVars>>
    /\ phase = "mounted"
    /\ phase' = "unmounted"
    /\ intervalActive' = FALSE
    /\ revealTimer' = FALSE
    /\ UNCHANGED <<backend, slots, report, loading, error, showReveal, hasRevealed,
                   revealZero, slotSummary, summary>>

PageNext ==
    \/ Mount
    \/ Tick
    \/ BackendAdvance
    \/ BackendFail
    \/ \E i \in Slots : Respond(i)
    \/ \E i \in Slots : RespondError(i)
    \/ \E i \in Slots : Deliver(i)
    \/ RevealShow
    \/ RevealDone
    \/ Unmount

----------------------------------------------------------------------------
(* AI Insights panel of the results page *)

\* Longest ai_summary tried, in tokens.
MaxSummaryLen == 4

\* The tokens an ai_summary is made of: white space, a code fence (three
\* backquotes), the word json, the JSON text of a summary of the expected shape
\* ("object"), that JSON text stringified once more, which is a JSON string
\* literal ("stringified"), the JSON text null, and text that is no JSON.
SummaryTokens == {"ws", "fence", "json", "object", "stringified", "null", "text"}

AiSummaries == {NoSummary} \cup UNION {[1..n -> SummaryTokens] : n \in 0..MaxSummaryLen}

\* String.prototype.trim
RECURSIVE trimStart(_)
trimStart(text) ==
    IF text # <<>> /\ Head(text) = "ws" THEN trimStart(Tail(text)) ELSE text

RECURSIVE trimEnd(_)
trimEnd(text) ==
    IF text # <<>> /\ text[Len(text)] = "ws" THEN trimEnd(SubSeq(text, 1, Len(text) - 1))
    ELSE text

trim(text) == trimEnd(trimStart(text))

startsWith(text, prefix) ==
    Len(text) >= Len(prefix) /\ SubSeq(text, 1, Len(prefix)) = prefix

endsWith(text, suffix) ==
    Len(text) >= Len(suffix) /\ SubSeq(text, Len(text) - Len(suffix) + 1, Len(text)) = suffix

\* The three fence removals, in the code's order; slice(7) takes off the fence with json,
\* slice(3) and slice(0, -3) a fence.
cleanJson(text) ==
    LET a == trim(text)
        b == IF startsWith(a, <<"fence", "json">>) THEN SubSeq(a, 3, Len(a)) ELSE a
        c == IF startsWith(b, <<"fence">>) THEN SubSeq(b, 2, Len(b)) ELSE b
    IN IF endsWith(c, <<"fence">>) THEN SubSeq(c, 1, Len(c) - 1) ELSE c

\* JSON.parse: one JSON value with white space around it, else a SyntaxError.
\* The value is given by its kind: "object" (a summary of the expected shape),
\* "string", "null"; "throws" stands for the SyntaxError.
JSONparse(text) ==
    LET core == trim(text)
    IN IF Len(core) # 1 THEN "throws"
       ELSE CASE core[1] = "object" -> "object"
              [] core[1] = "stringified" -> "string"
              [] core[1] = "null" -> "null"
              [] OTHER -> "throws"

\* The aiSummary memo: null without ai_summary or when parsing throws, else the
\* parsed value.
aiSummary ==
    IF ~Truthy(summary) THEN "null"
    ELSE LET parsed == JSONparse(cleanJson(summary))
         IN IF parsed = "throws" THEN "null" ELSE parsed

\* The AI Insights panel.  With aiSummary truthy the structured branch renders
\* aiSummary.overall_assessment and aiSummary.issues.map(...): on a string, issues
\* is undefined and .map throws a TypeError during render.
AIInsights ==
    IF aiSummary # "null"
    THEN IF aiSummary = "object" THEN "structured" ELSE "TypeError"
    ELSE IF Truthy(summary) THEN "raw text" ELSE "not available"

InsightsIdle == insights = "none"

\* The dashboard just after a completed report with some ai_summary was stored.
InsightsInit ==
    /\ phase = "mounted"
    /\ backend = "completed"
    /\ slots = [i \in Slots |-> "free"]
    /\ report = "completed"
    /\ loading = FALSE
    /\ error = ""
    /\ intervalActive = FALSE
    /\ showReveal = FALSE
    /\ hasRevealed = FALSE
    /\ revealZero = TRUE
    /\ revealTimer = TRUE
    /\ slotSummary = [i \in Slots |-> NoSummary]
    /\ summary \in AiSummaries
    /\ insights = "none"

\* The dashboard renders its AI Insights panel.
RenderInsights ==
    /\ UNCHANGED <<pageVars, wfVars, impactVars, vitalVars, markerVars, homeVars, gridVars>>
    /\ Screen = "dashboard"
    /\ insights = "none"
    /\ insights' = AIInsights

InsightsNext == RenderInsights

----------------------------------------------------------------------------
(* Home page, app/page.tsx *)

\* Create-report requests the model keeps track of at a time.
MaxPosts == 2

PostSlots == 1..MaxPosts

\* useState<string | null>(null): null is held as a string no message equals.
NoError == "(null)"

Urls == {"", "https://a.test", "https://b.test", "https://c.test"}

\* The ids the backend gives to created reports.
ReportIds == {1, 2, 3}

\* What axios.post rejects with: an Error with its message, or something that is
\* no Error.
Rejections ==
    {[isError |-> TRUE, message |-> "Network Error"],
     [isError |-> TRUE, message |-> "Request failed with status code 500"],
     [isError |-> FALSE, message |-> ""]}

FreePost == [state |-> "free", url |-> "", id |-> 0, err |-> [isError |-> FALSE, message |-> ""]]

HomeInit ==
    /\ homeUrl = ""
    /\ homeLoading = FALSE
    /\ homeError = NoError
    /\ posts = [i \in PostSlots |-> FreePost]
    /\ route = <<>>

\* The input's onChange.
setUrl(u) ==
    /\ UNCHANGED <<pageVars, wfVars, impactVars, vitalVars, markerVars, insightVars, gridVars>>
    /\ route = <<>>
    /\ u # homeUrl
    /\ homeUrl' = u
    /\ UNCHANGED <<homeLoading, homeError, posts, route>>

FreePostSlot == CHOOSE i \in PostSlots : posts[i].state = "free"

\* handleSubmit without setLoading(true).
handleSubmitNoLoading ==
    /\ UNCHANGED <<pageVars, wfVars, impactVars, vitalVars, markerVars, insightVars, gridVars>>
    /\ route = <<>>
    /\ ~homeLoading
    /\ \E i \in PostSlots : posts[i].state = "free"
    /\ IF homeUrl = ""
       THEN UNCHANGED <<homeLoading, homeError, posts>>
       ELSE /\ homeLoading' = homeLoading
            /\ homeError' = NoError
            /\ posts' = [posts EXCEPT ![FreePostSlot] =
                             [FreePost EXCEPT !.state = "sent", !.url = homeUrl]]
    /\ UNCHANGED <<homeUrl, route>>

\* handleSubmit up to the await.  The form is submitted through its submit button,
\* which is disabled while loading.
handleSubmit ==
    /\ UNCHANGED <<pageVars, wfVars, impactVars, vitalVars, markerVars, insightVars, gridVars>>
    /\ route = <<>>
    /\ ~homeLoading
    /\ \E i \in PostSlots : posts[i].state = "free"
    /\ IF homeUrl = ""
       THEN UNCHANGED <<homeLoading, homeError, posts>>
       ELSE /\ homeLoading' = TRUE
            /\ homeError' = NoError
            /\ posts' = [posts EXCEPT ![FreePostSlot] =
                             [FreePost EXCEPT !.state = "sent", !.url = homeUrl]]
    /\ UNCHANGED <<homeUrl, route>>

\* The backend creates the report and answers with its id.
PostCreated(i, id) ==
    /\ UNCHANGED <<pageVars, wfVars, impactVars, vitalVars, markerVars, insightVars, gridVars>>
    /\ posts[i].state = "sent"
    /\ posts' = [posts EXCEPT ![i].state = "created", ![i].id = id]
    /\ UNCHANGED <<homeUrl, homeLoading, homeError, route>>

\* The request fails.
PostRejected(i, err) ==
    /\ UNCHANGED <<pageVars, wfVars, impactVars, vitalVars, markerVars, insightVars, gridVars>>
    /\ posts[i].state = "sent"
    /\ posts' = [posts EXCEPT ![i].state = "rejected", ![i].err = err]
    /\ UNCHANGED <<homeUrl, homeLoading, homeError, route>>

\* The message without the fallback for what is no Error.
errorMessageOfAny(err) == err.message

\* err instanceof Error ? err.message : 'Failed to connect to the server.'
errorMessage(err) ==
    IF err.isError THEN err.message ELSE "Failed to connect to the server."

\* handleSubmit after the await: router.push on success, the catch branch on
\* failure.  A page that has navigated away ignores state updates.
PostSettle(i) ==
    /\ UNCHANGED <<pageVars, wfVars, impactVars, vitalVars, markerVars, insightVars, gridVars>>
    /\ posts[i].state \in {"created", "rejected"}
    /\ posts' = [posts EXCEPT ![i] = FreePost]
    /\ IF posts[i].state = "created"
       THEN /\ route' = <<"results", posts[i].id>>
            /\ UNCHANGED <<homeLoading, homeError>>
       ELSE /\ route' = route
            /\ homeError' = IF route = <<>> THEN errorMessage(posts[i].err) ELSE homeError
            /\ homeLoading' = IF route = <<>> THEN FALSE ELSE homeLoading
    /\ UNCHANGED homeUrl

HomeNext ==
    \/ \E u \in Urls : setUrl(u)
    \/ handleSubmit
    \/ \E i \in PostSlots, id \in ReportIds : PostCreated(i, id)
    \/ \E i \in PostSlots, err \in Rejections : PostRejected(i, err)
    \/ \E i \in PostSlots : PostSettle(i)

----------------------------------------------------------------------------
(* ScoreGrid *)

\* A score of null.
Null == 0 - 999997

CategoryKeys == {"performance", "accessibility", "best-practices", "seo"}

\* Lighthouse category scores the model draws from, in thousandths of the 0..1
\* range, so that Math.round(score * 100) is not the identity.
ScoreValues == {0, 4, 125, 294, 500, 896, 1000}

NoCategory == [present |-> FALSE, score |-> Undef]

\* A category of the report: missing, or present with a score that is a number,
\* null or missing.
CategoryValues ==
    {NoCategory} \cup {[present |-> TRUE, score |-> v] : v \in ScoreValues \cup {Null, Undef}}

NoCategories == [given |-> FALSE, of |-> [key \in CategoryKeys |-> NoCategory]]

\* categories.performance?.score
ScoreOf(cats, key) == IF cats.of[key].present THEN cats.of[key].score ELSE Undef

\* The conversion without the test for null and undefined: Math.round(null * 100)
\* is 0, Math.round(undefined * 100) is NaN.
normalizedScoreUnchecked(score) ==
    IF score = Null THEN 0
    ELSE IF score = Undef THEN NaN
    ELSE (score + 5) \div 10

\* normalizedScore: Math.round(item.score * 100) for a score that is neither null
\* nor undefined, else 0.
normalizedScore(score) ==
    IF score # Null /\ score # Undef
    THEN (score + 5) \div 10
    ELSE 0

\* The data array of ScoreGrid.
ScoreGridData(cats) ==
    <<[label |-> "Performance", score |-> ScoreOf(cats, "performance")],
      [label |-> "Accessibility", score |-> ScoreOf(cats, "accessibility")],
      [label |-> "Best Practices", score |-> ScoreOf(cats, "best-practices")],
      [label |-> "SEO", score |-> ScoreOf(cats, "seo")]>>

GridIdle ==
    /\ categories = NoCategories
    /\ gauges = <<>>
    /\ gridShown = FALSE

GridInit ==
    /\ categories \in {NoCategories}
                        \cup {[given |-> TRUE, of |-> f] : f \in [CategoryKeys -> CategoryValues]}
    /\ gauges = <<>>
    /\ gridShown = FALSE

\* ScoreGrid renders: nothing without categories, else one Gauge per entry of data.
ScoreGrid ==
    /\ UNCHANGED <<pageVars, wfVars, impactVars, vitalVars, markerVars, insightVars, homeVars>>
    /\ ~gridShown
    /\ gridShown' = TRUE
    /\ gauges' = IF ~categories.given THEN <<>>
                 ELSE Array([index \in DOMAIN ScoreGridData(categories) |->
                          [label |-> ScoreGridData(categories)[index].label,
                           score |-> normalizedScore(ScoreGridData(categories)[index].score)]])
    /\ UNCHANGED categories

GridNext == ScoreGrid

----------------------------------------------------------------------------
(* Specifications *)

Init == PageInit /\ WfIdle /\ ImpactIdle /\ VitalIdle /\ InsightsIdle /\ HomeInit /\ GridIdle

Next == PageNext

Spec == Init /\ [][Next]_vars

\* Every request succeeds, the backend completes the report, the page stays open.
LiveNext ==
    \/ Mount
    \/ Tick
    \/ BackendAdvance
    \/ \E i \in Slots : Respond(i)
    \/ \E i \in Slots : Deliver(i)
    \/ RevealShow
    \/ RevealDone

\* The effect runs after the first render, the 2 s timer keeps firing while armed,
\* the backend pipeline keeps going, requests are answered and answers delivered.
LiveSpec ==
    /\ Init
    /\ [][LiveNext]_vars
    /\ WF_vars(Mount)
    /\ WF_vars(Tick)
    /\ WF_vars(BackendAdvance)
    /\ WF_vars(\E i \in Slots : Respond(i))
    /\ WF_vars(\E i \in Slots : Deliver(i))

\* LiveSpec with the two timers of the reveal effect firing when due.
RevealSpec ==
    /\ LiveSpec
    /\ WF_vars(RevealShow)
    /\ WF_vars(RevealDone)

\* The AI Insights panel for every ai_summary.
InsightsSpecInit == InsightsInit /\ WfIdle /\ ImpactIdle /\ VitalIdle /\ HomeInit /\ GridIdle

InsightsSpec == InsightsSpecInit /\ [][InsightsNext]_vars

\* The home page.
HomeSpecInit == PageInit /\ WfIdle /\ ImpactIdle /\ VitalIdle /\ InsightsIdle /\ HomeInit /\ GridIdle

HomeSpec == HomeSpecInit /\ [][HomeNext]_vars

\* The waterfall of one audit, with its controls.
WaterfallInit == PageInit /\ WfInit /\ ImpactIdle /\ VitalIdle /\ InsightsIdle /\ HomeInit /\ GridIdle

WaterfallSpec == WaterfallInit /\ [][WfNext]_vars

\* The waterfall's cursor marker.
MarkerSpecInit == PageInit /\ MarkerInit /\ ImpactIdle /\ VitalIdle /\ InsightsIdle /\ HomeInit /\ GridIdle

MarkerSpec == MarkerSpecInit /\ [][MarkerNext]_vars

\* calculateImpactScore applied to arguments of every kind.
ImpactSpecInit == PageInit /\ WfIdle /\ ImpactInit /\ VitalIdle /\ InsightsIdle /\ HomeInit /\ GridIdle

ImpactSpec == ImpactSpecInit /\ [][ImpactNext]_vars

\* The web-vitals grid of one set of audits.
VitalsInit == PageInit /\ WfIdle /\ ImpactIdle /\ VitalInit /\ InsightsIdle /\ HomeInit /\ GridIdle

VitalsSpec == VitalsInit /\ [][VitalNext]_vars

\* ScoreGrid rendering the categories of one report.
GridSpecInit ==
    PageInit /\ WfIdle /\ ImpactIdle /\ VitalIdle /\ InsightsIdle /\ HomeInit /\ GridInit

GridSpec == GridSpecInit /\ [][GridNext]_vars

----------------------------------------------------------------------------
(* Claims: results page *)

NewRequestStarted == \E i \in Slots : slots[i] = "free" /\ slots'[i] = "sent"

TerminalProcessed ==
    \E i \in Slots : slots[i] \in Terminal \cup {"error"} /\ slots'[i] = "free"

\* C1: a report request is issued on mount together with the 2 s interval; a step
\* in which the page processes a 'completed' or 'failed' response or a request
\* error leaves the interval cleared; and once the interval is cleared after mount
\* it stays cleared and the page starts no new report request.
C1_PollingStops ==
    [][ /\ (phase = "new" /\ phase' = "mounted") => (NewRequestStarted /\ intervalActive')
        /\ TerminalProcessed => ~intervalActive'
        /\ (phase # "new" /\ ~intervalActive) => (~intervalActive' /\ ~NewRequestStarted)
        /\ NewRequestStarted => (intervalActive \/ phase = "new") ]_vars

C1_Witness ==
    /\ phase = "mounted"
    /\ report = "completed"
    /\ ~loading
    /\ ~intervalActive
    /\ \A i \in Slots : slots[i] = "free"

\* C2: while the page is shown, the dashboard is rendered only with a stored report
\* of status 'completed' and no fetch error; with no fetch error and the stored
\* report absent, 'pending' or 'processing' the loading screen is rendered; and with
\* a fetch error or status 'failed' the 'Audit Failed' screen is rendered.
C2_ScreenMatchesReport ==
    phase = "mounted" =>
        /\ Screen = "dashboard" => (report = "completed" /\ error = "")
        /\ (error = "" /\ report \in {NoReport, "pending", "processing"}) => Screen = "loading"
        /\ (error # "" \/ report = "failed") => Screen = "failed"

\* C3: with every request succeeding and the backend completing the report, under
\* fair timer, backend and delivery steps the page eventually shows the dashboard
\* for the completed report.
C3_EventuallyDashboard ==
    <>(phase = "mounted" /\ Screen = "dashboard" /\ report = "completed")

C3_Witness ==
    /\ phase = "mounted"
    /\ backend = "completed"
    /\ report = "completed"
    /\ Screen = "dashboard"
    /\ error = ""

\* C12: once the stored report is 'completed' or 'failed', no step (no response
\* delivered later) changes the stored status, the loading flag or the error flag.
C12_TerminalReportIsFinal ==
    [][ (phase = "mounted" /\ report \in Terminal) =>
            (report' = report /\ loading' = loading /\ error' = error) ]_vars

\* C13, liveness: once the stored report is 'completed', the page eventually has
\* hasRevealed true and the overlay hidden.
C13_RevealCompletes ==
    (phase = "mounted" /\ report = "completed") ~> (hasRevealed /\ ~showReveal)

\* C13, safety: hasRevealed never returns to false, and the overlay goes from
\* hidden to shown only while hasRevealed is false (so at most once, for hiding it
\* sets hasRevealed).
C13_RevealOnce ==
    [][ /\ hasRevealed => hasRevealed'
        /\ (~showReveal /\ showReveal') => (~hasRevealed /\ ~hasRevealed')
        /\ (showReveal /\ ~showReveal') => hasRevealed' ]_vars

RequestFailureProcessed ==
    phase = "mounted" /\ \E i \in Slots : slots[i] = "error" /\ slots'[i] = "free"

FailedResponseProcessed ==
    phase = "mounted" /\ \E i \in Slots : slots[i] = "failed" /\ slots'[i] = "free"

\* C14: processing a request failure records 'Failed to fetch report', sets loading
\* to false and leaves the 'Audit Failed' screen rendered; processing a 'failed'
\* response leaves that screen rendered too; and whenever that screen is rendered
\* its message is the stored ai_summary if non-empty, else the recorded error,
\* else 'Unknown error occurred'.
C14_AuditFailedScreen ==
    /\ [][ /\ RequestFailureProcessed =>
                 (error' = FetchError /\ ~loading' /\ Screen' = "failed")
           /\ FailedResponseProcessed => Screen' = "failed" ]_vars
    /\ [](Screen = "failed" =>
            FailureMessage = CASE summary \notin {NoSummary, <<>>} -> summary
                               [] summary \in {NoSummary, <<>>} /\ error # "" -> <<error>>
                               [] OTHER -> <<"Unknown error occurred">>)

C14_Witness ==
    /\ phase = "mounted"
    /\ Screen = "failed"
    /\ report = "processing"
    /\ error = FetchError
    /\ summary = <<"text">>
    /\ FailureMessage = <<"text">>

\* C15: whatever the ai_summary, the AI Insights panel renders the structured
\* assessment, the raw summary text or 'AI summary not available.', never an
\* error; and the raw text is shown only for a non-empty summary.
C15_InsightsNeverFail ==
    insights # "none" =>
        /\ insights \in {"structured", "raw text", "not available"}
        /\ insights = "not available" <=> summary \in {NoSummary, <<>>}

NewPosts == {i \in PostSlots : posts[i].state = "free" /\ posts'[i].state = "sent"}

SettledAs(state) ==
    route = <<>> /\ \E i \in PostSlots : posts[i].state = state /\ posts'[i].state = "free"

\* C16: a POST is sent only with a non-empty URL, one at a time, carrying the URL,
\* with loading set and the error cleared; loading is set and the error cleared
\* by no other step (so a submit with an empty URL changes nothing); a created
\* report leads to /results/<its id> with the error still null; a failed request
\* leaves a non-empty error, loading false and the route unchanged.
C16_SubmitOutcomes ==
    [][ /\ NewPosts # {} =>
             /\ homeUrl # ""
             /\ Cardinality(NewPosts) = 1
             /\ \A i \in NewPosts : posts'[i].url = homeUrl
             /\ homeLoading' /\ homeError' = NoError /\ route' = route
        /\ (~homeLoading /\ homeLoading') => NewPosts # {}
        /\ (homeError # NoError /\ homeError' = NoError) => NewPosts # {}
        /\ SettledAs("created") =>
             /\ \E i \in PostSlots : posts[i].state = "created" /\ route' = <<"results", posts[i].id>>
             /\ homeError = NoError /\ homeError' = NoError
        /\ SettledAs("rejected") =>
             /\ homeError' \notin {NoError, ""}
             /\ ~homeLoading'
             /\ route' = route
        /\ route' # route => SettledAs("created") ]_vars

C16_Witness ==
    /\ route = <<"results", 2>>
    /\ homeUrl = "https://b.test"
    /\ homeLoading
    /\ homeError = NoError
    /\ \A i \in PostSlots : posts[i].state = "free"

\* C17: at most one create-report request is outstanding, and while one is
\* outstanding loading is true.
C17_OnePostAtATime ==
    /\ Cardinality({i \in PostSlots : posts[i].state # "free"}) <= 1
    /\ (\E i \in PostSlots : posts[i].state # "free") => homeLoading

C17_Witness ==
    /\ homeLoading
    /\ homeUrl = "https://b.test"
    /\ \E i \in PostSlots : posts[i].state = "sent" /\ posts[i].url = "https://a.test"

----------------------------------------------------------------------------
(* Claims: impact score *)

\* The resource-type factor of the claim, in tenths.
ClaimFactor(t) ==
    CASE t = "Script" -> 13 [] t = "Stylesheet" -> 12 [] t = "Image" -> 10
      [] t = "Font" -> 8 [] OTHER -> 7

\* C4: calculateImpactScore returns
\* min(1, max(0, (0.5*(e-s)/D + 0.3*z/M + 0.2*(1 - (s-g)/D)) * f(t))) with each ratio 0
\* when its denominator is not positive; computed here over the common
\* denominator 100*D*M.
C4_ImpactFormula ==
    impactResult # <<>> =>
        LET x == impactArgs
            dOk == x.totalDuration # NaN /\ x.totalDuration > 0
            mOk == x.maxTransferSize > 0
            D == IF dOk THEN x.totalDuration ELSE 1
            M == IF mOk THEN x.maxTransferSize ELSE 1
            dur == IF dOk THEN x.endTime - x.startTime ELSE 0
            rel == IF dOk THEN x.startTime - x.globalStartTime ELSE 0
            z == IF mOk THEN x.transferSize ELSE 0
            num == (5 * dur * M + 3 * z * D + 2 * (D - rel) * M) * ClaimFactor(x.resourceType)
            den == 100 * D * M
        IN impactResult[1] = Q(Min2(den, Max2(0, num)), den)

C4_Witness ==
    /\ impactResult # <<>>
    /\ impactArgs.resourceType = "Font"
    /\ impactArgs.totalDuration = 3
    /\ impactArgs.maxTransferSize = 2
    /\ impactArgs.startTime = 1
    /\ impactArgs.endTime = 3
    /\ impactArgs.transferSize = 1
    /\ impactArgs.globalStartTime = 0
    /\ impactResult[1] = Q(37, 75)

----------------------------------------------------------------------------
(* Claims: waterfall *)

Values(seq) == {seq[k] : k \in DOMAIN seq}

\* Scores put in place of the computed ones.
AltScores == {Q(0, 1), Q(1, 1)}

\* What is shown of each row besides its colour: the bar's place and length, the
\* label column and the tooltip.
ShownRows(rows) ==
    {[id |-> r.id, begin |-> BarOf(r).begin, length |-> BarOf(r).length,
      tick |-> CustomYAxisTick(r), tooltip |-> CustomTooltip(r)] : r \in Values(rows)}

\* The same without the tooltip's impact badge.
ShownRowsNoBadge(rows) ==
    {[id |-> r.id, begin |-> BarOf(r).begin, length |-> BarOf(r).length,
      tick |-> CustomYAxisTick(r),
      tooltip |-> [url |-> CustomTooltip(r).url, start |-> CustomTooltip(r).start,
                   duration |-> CustomTooltip(r).duration, size |-> CustomTooltip(r).size,
                   type |-> CustomTooltip(r).type]] : r \in Values(rows)}

RowOrder(rows) == [k \in DOMAIN rows |-> rows[k].id]

\* C5 as stated: whatever scores the requests had, the rows shown, each bar's
\* place and length, the labels and every value in the tooltip stay the same, and
\* so does the row order unless the sort mode is 'impact'.
C5_ImpactOnlySortAndColour ==
    \A alt \in [DOMAIN audits.items -> AltScores] :
        LET rows == chartDataWith(audits, filterType, sortMode, alt)
        IN /\ ShownRows(rows) = ShownRows(chartData)
           /\ Len(rows) = Len(chartData)
           /\ sortMode # "impact" => RowOrder(rows) = RowOrder(chartData)

\* C5 amended: the same, the tooltip's impact badge (level and percentage) left out.
C5_ImpactOnlySortColourBadge ==
    \A alt \in [DOMAIN audits.items -> AltScores] :
        LET rows == chartDataWith(audits, filterType, sortMode, alt)
        IN /\ ShownRowsNoBadge(rows) = ShownRowsNoBadge(chartData)
           /\ Len(rows) = Len(chartData)
           /\ sortMode # "impact" => RowOrder(rows) = RowOrder(chartData)

C5_Witness ==
    /\ Len(chartData) = 2
    /\ filterType = "All"
    /\ sortMode = "impact"
    /\ chartData[1].impactLevel = "high"
    /\ chartData[2].impactLevel = "low"
    /\ getBarColor(chartData[1]) # getBarColor(chartData[2])
    /\ CustomTooltip(chartData[1]).impact.percent > CustomTooltip(chartData[2]).impact.percent

\* The earliest start among the items that have one; 0 when none has.
EarliestStart ==
    LET starts == {StartOf(audits.items[i]) : i \in DOMAIN audits.items} \ {Undef}
    IN IF starts = {} THEN 0 ELSE SetMin(starts)

RowsOf(i) == {k \in DOMAIN chartData : chartData[k].id = i}

\* C6 as stated: under 'All' every item has exactly one row, and for an item with
\* both times its bar begins at round(start - earliest start) and is
\* round(end - start) long.
C6_BarIsStartAndDuration ==
    filterType = "All" =>
        /\ Len(chartData) = Len(audits.items)
        /\ \A i \in DOMAIN audits.items :
              /\ Cardinality(RowsOf(i)) = 1
              /\ (StartOf(audits.items[i]) # Undef /\ EndOf(audits.items[i]) # Undef) =>
                    \A k \in RowsOf(i) :
                        /\ BarOf(chartData[k]).begin = Round(StartOf(audits.items[i]) - EarliestStart)
                        /\ BarOf(chartData[k]).length =
                               Round(EndOf(audits.items[i]) - StartOf(audits.items[i]))

\* C6 amended: under 'All' every item has exactly one row; with a missing time
\* counted as 0, its bar begins at round(max(0, start - earliest start)) and is
\* round(max(1 ms, end - start)) long.
C6_BarIsStartAndDurationAtLeast1 ==
    filterType = "All" =>
        /\ Len(chartData) = Len(audits.items)
        /\ \A i \in DOMAIN audits.items :
              LET s == Coalesce(StartOf(audits.items[i]), 0)
                  e == Coalesce(EndOf(audits.items[i]), 0)
              IN /\ Cardinality(RowsOf(i)) = 1
                 /\ \A k \in RowsOf(i) :
                        /\ BarOf(chartData[k]).begin = Round(Max2(0, s - EarliestStart))
                        /\ BarOf(chartData[k]).length = Round(Max2(Ms(1), e - s))

C6_Witness ==
    /\ filterType = "All"
    /\ sortMode = "duration"
    /\ Len(chartData) = 2
    /\ EarliestStart = 2
    /\ \E k \in DOMAIN chartData :
          /\ StartOf(audits.items[chartData[k].id]) = 3
          /\ EndOf(audits.items[chartData[k].id]) = 3
          /\ BarOf(chartData[k]).begin = 1
          /\ BarOf(chartData[k]).length = 1

VisibleIds == {chartData[k].id : k \in DOMAIN chartData}

\* C7: with a filter other than 'All' the visible rows are exactly the requests
\* whose resourceType is the filter, each once; with 'All' they are all requests.
C7_FilterSelectsType ==
    /\ Cardinality(VisibleIds) = Len(chartData)
    /\ VisibleIds = IF filterType = "All" THEN DOMAIN audits.items
                    ELSE {i \in DOMAIN audits.items : audits.items[i].resourceType = filterType}

C7_Witness ==
    /\ filterType = "Fetch"
    /\ Len(audits.items) = 2
    /\ Len(chartData) = 1
    /\ chartData[1].resourceType = "Fetch"

\* C8: every adjacent pair of visible rows is in the order of the sort mode:
\* start ascending, duration, size and impact score descending.
C8_RowsSorted ==
    \A k \in 1..(Len(chartData) - 1) :
        LET x == chartData[k]
            y == chartData[k + 1]
        IN CASE sortMode = "start" -> x.start <= y.start
             [] sortMode = "duration" -> x.duration >= y.duration
             [] sortMode = "size" -> x.size >= y.size
             [] sortMode = "impact" -> QLe(y.impactScore, x.impactScore)

C8_Witness ==
    /\ sortMode = "size"
    /\ filterType = "Image"
    /\ Len(chartData) = 2
    /\ chartData[1].size > chartData[2].size
    /\ chartData[1].id > chartData[2].id

----------------------------------------------------------------------------
(* Claims: web vitals *)

\* The limits of the claim, in hundredths: <<good up to, needs-improvement up to>>.
ClaimLimits(metric) ==
    CASE metric = "LCP" -> <<250000, 400000>>
      [] metric = "INP" -> <<20000, 50000>>
      [] metric = "CLS" -> <<10, 25>>
      [] metric = "TBT" -> <<20000, 60000>>

ClaimSeverity(metric, v) ==
    IF v <= ClaimLimits(metric)[1] THEN "good"
    ELSE IF v <= ClaimLimits(metric)[2] THEN "needs-improvement"
    ELSE "poor"

Rank(severity) ==
    CASE severity = "good" -> 0 [] severity = "needs-improvement" -> 1 [] severity = "poor" -> 2

\* getSeverity's arguments for a metric.
SeverityOf(metric, v) ==
    CASE metric = "LCP" -> getSeverity("lcp", v, FALSE)
      [] metric = "INP" -> getSeverity("inp", v, FALSE)
      [] metric = "CLS" -> getSeverity("cls", v, FALSE)
      [] metric = "TBT" -> getSeverity("inp", v, TRUE)

Numbers == (PaintValues \cup BlockingValues \cup ShiftValues) \ {Undef}

\* C9: getSeverity gives each value the severity of the limits LCP 2500/4000 ms,
\* INP 200/500 ms, CLS 0.1/0.25, TBT 200/600 ms, upper bounds included; a larger
\* value never gets a better severity; and each card rendered carries the
\* severity of the metric it is labelled with.
C9_SeverityThresholds ==
    /\ \A metric \in {"LCP", "INP", "CLS", "TBT"} :
          /\ \A v \in Numbers : SeverityOf(metric, v) = ClaimSeverity(metric, v)
          /\ \A v, w \in Numbers :
                v <= w => Rank(SeverityOf(metric, v)) <= Rank(SeverityOf(metric, w))
    /\ \A k \in DOMAIN vitalCards :
          /\ vitalCards[k].severity \in {"good", "needs-improvement", "poor"}
          /\ vitalCards[k].data.numericValue # Undef =>
                vitalCards[k].severity =
                    ClaimSeverity(vitalCards[k].short, vitalCards[k].data.numericValue)

C9_Witness ==
    /\ vitalsShown
    /\ Len(vitalCards) = 3
    /\ vitalCards[1].short = "LCP" /\ vitalCards[1].data.numericValue = 250000
    /\ vitalCards[1].severity = "good"
    /\ vitalCards[2].short = "INP" /\ vitalCards[2].data.numericValue = 50001
    /\ vitalCards[2].severity = "poor"
    /\ vitalCards[3].short = "CLS" /\ vitalCards[3].data.numericValue = 25
    /\ vitalCards[3].severity = "needs-improvement"

CardsOf(id) == {k \in DOMAIN vitalCards : vitalCards[k].id = id}

\* C10: once rendered, the interactivity card shows the TBT audit under the TBT
\* label with the TBT limits exactly when the INP audit is absent and the TBT
\* audit present; with the INP audit present it shows the INP audit under the INP
\* label with the INP limits; and a vital without audit has no card.
C10_TbtFallback ==
    vitalsShown =>
        LET inp == vitalAudits["interaction-to-next-paint"]
            tbt == vitalAudits["total-blocking-time"]
            usesTbt == \E k \in CardsOf("inp") :
                          \/ vitalCards[k].short = "TBT"
                          \/ vitalCards[k].data.id = "total-blocking-time"
                          \/ vitalCards[k].title = "Total Blocking Time (INP Proxy)"
        IN /\ usesTbt <=> (inp = NoAudit /\ tbt # NoAudit)
           /\ (inp = NoAudit /\ tbt # NoAudit) =>
                 /\ Cardinality(CardsOf("inp")) = 1
                 /\ \A k \in CardsOf("inp") :
                       /\ vitalCards[k].data = tbt[1]
                       /\ vitalCards[k].short = "TBT"
                       /\ vitalCards[k].title = "Total Blocking Time (INP Proxy)"
                       /\ tbt[1].numericValue # Undef =>
                             vitalCards[k].severity = ClaimSeverity("TBT", tbt[1].numericValue)
           /\ inp # NoAudit =>
                 /\ Cardinality(CardsOf("inp")) = 1
                 /\ \A k \in CardsOf("inp") :
                       /\ vitalCards[k].data = inp[1]
                       /\ vitalCards[k].short = "INP"
                       /\ vitalCards[k].title = "Interaction to Next Paint"
                       /\ inp[1].numericValue # Undef =>
                             vitalCards[k].severity = ClaimSeverity("INP", inp[1].numericValue)
           /\ (inp = NoAudit /\ tbt = NoAudit) => CardsOf("inp") = {}
           /\ vitalAudits["largest-contentful-paint"] = NoAudit => CardsOf("lcp") = {}
           /\ vitalAudits["cumulative-layout-shift"] = NoAudit => CardsOf("cls") = {}

C10_Witness ==
    /\ vitalsShown
    /\ vitalAudits["largest-contentful-paint"] = NoAudit
    /\ vitalAudits["interaction-to-next-paint"] = NoAudit
    /\ vitalAudits["total-blocking-time"] # NoAudit
    /\ vitalAudits["total-blocking-time"][1].numericValue = 60000
    /\ Len(vitalCards) = 2
    /\ vitalCards[1].short = "TBT"
    /\ vitalCards[1].severity = "needs-improvement"

----------------------------------------------------------------------------
(* Claims: score range, controls, axis *)

\* C18: the impact score of every request of the audit, requests with missing
\* fields included, lies between 0 and 1, and the percentage the tooltip of a row
\* shows lies between 0 and 100.
C18_ImpactScoreInRange ==
    /\ \A i \in DOMAIN impactScores(audits) :
           LET score == impactScores(audits)[i]
           IN score.d > 0 /\ 0 <= score.n /\ score.n <= score.d
    /\ \A k \in DOMAIN chartData :
           /\ QLe(Q(0, 1), chartData[k].impactScore) /\ QLe(chartData[k].impactScore, Q(1, 1))
           /\ CustomTooltip(chartData[k]).impact.percent \in 0..100

\* A request with no times at all beside one whose weighted sum exceeds 1.
C18_Witness ==
    /\ \E i \in DOMAIN audits.items : StartOf(audits.items[i]) = Undef /\ EndOf(audits.items[i]) = Undef
    /\ \E k \in DOMAIN chartData :
           /\ chartData[k].impactScore = Q(1, 1)
           /\ CustomTooltip(chartData[k]).impact.percent = 100
    /\ \E k \in DOMAIN chartData :
           /\ chartData[k].impactScore # Q(1, 1)
           /\ chartData[k].resourceType = ""

\* C19: with at least one network request in the audit the controls are rendered
\* in every state the filter, sort and zoom selections lead to, so the 'All'
\* filter can be selected.
C19_ControlsStayRendered ==
    Len(audits.items) > 0 => Rendered

\* C20: every visible row has start >= 0, duration >= 1 and
\* start + duration <= max(total duration, 28000), the upper end of the time axis.
C20_BarsInsideAxis ==
    \A k \in DOMAIN chartData :
        /\ chartData[k].start >= 0
        /\ chartData[k].duration >= 1
        /\ displayDuration(audits) # NaN
        /\ Ms(chartData[k].start + chartData[k].duration) <= displayDuration(audits)

\* C11: when the mouse moves to a place over the chart body, the marker is shown
\* exactly if x lies from 270 px after the left edge to 100 px before the right
\* edge; its time label is then round(relativeX / gridWidth * max(total
\* duration, 28000)), a number from 0 to the maximum of the two time axes; and
\* with the mouse outside the scroll container there is no marker.
C11_MarkerFollowsCursor ==
    [][ /\ (cursor' # cursor /\ cursor' # <<>>) =>
             LET c == cursor'[1]
                 inside == 270 <= c.x /\ c.x <= c.width - 100
             IN /\ (markerPos' # <<>>) <=> inside
                /\ inside =>
                     /\ markerPos'[1].x = c.x
                     /\ displayDuration(audits) # NaN
                     /\ markerPos'[1].time # NaN
                     /\ markerPos'[1].time =
                            ((c.x - 270) * Max2(globalStats(audits).duration, Ms(AxisFloorMs))
                                 + (c.width - 370)) \div (2 * (c.width - 370))
                     /\ 0 <= markerPos'[1].time
                     /\ Ms(markerPos'[1].time) <= displayDuration(audits)
        /\ cursor' = <<>> => markerPos' = <<>> ]_vars

----------------------------------------------------------------------------
(* Claims: bar colour, frame of the controls, zoom range, score grid *)

\* A URL with its query string removed, as the claim compares URLs.
ClaimStrip(url) == [dir |-> url.dir, file |-> url.file, query |-> ""]

ClaimImageUrls(a) ==
    a.urlAudits.modernImageFormats \cup a.urlAudits.usesOptimizedImages \cup a.urlAudits.usesWebpImages

ClaimLevelColour(score) ==
    IF 10 * score.n >= 6 * score.d THEN "#ef4444"
    ELSE IF 10 * score.n >= 3 * score.d THEN "#f59e0b"
    ELSE "#10b981"

\* C21 as stated: the request's URL without its query string is looked up among
\* the URLs the audits list.
C21_BarColourListedUrl ==
    \A k \in DOMAIN chartData :
        LET row == chartData[k]
        IN BarOf(row).fill =
              IF row.resourceType = "Script" /\ ClaimStrip(row.url) \in audits.urlAudits.renderBlocking
              THEN "#a855f7"
              ELSE IF row.resourceType = "Image" /\ ClaimStrip(row.url) \in ClaimImageUrls(audits)
              THEN "#3b82f6"
              ELSE ClaimLevelColour(row.impactScore)

\* C21, amended: a row's bar is purple if the request is a Script whose URL equals,
\* both taken without query string, a URL of the render-blocking-resources audit;
\* otherwise blue if it is an Image whose URL equals, both taken without query
\* string, a URL of one of the three image audits; otherwise red for a score of
\* at least 0.6, amber from 0.3, green below; and no row is both render-blocking
\* script and optimized image.
C21_BarColourUrlsWithoutQuery ==
    \A k \in DOMAIN chartData :
        LET row == chartData[k]
        IN /\ BarOf(row).fill =
                 IF /\ row.resourceType = "Script"
                    /\ \E u \in audits.urlAudits.renderBlocking : ClaimStrip(u) = ClaimStrip(row.url)
                 THEN "#a855f7"
                 ELSE IF /\ row.resourceType = "Image"
                         /\ \E u \in ClaimImageUrls(audits) : ClaimStrip(u) = ClaimStrip(row.url)
                 THEN "#3b82f6"
                 ELSE ClaimLevelColour(row.impactScore)
           /\ ~(row.isRenderBlockingScript /\ row.isOptimizedImage)

\* A render-blocking script listed under another query string, shown purple,
\* beside a script coloured by its impact.
C21_Witness ==
    /\ \E k \in DOMAIN chartData :
           /\ chartData[k].resourceType = "Script"
           /\ chartData[k].url \notin audits.urlAudits.renderBlocking
           /\ BarOf(chartData[k]).fill = "#a855f7"
    /\ \E k \in DOMAIN chartData :
           /\ chartData[k].resourceType = "Script"
           /\ BarOf(chartData[k]).fill \in {"#ef4444", "#f59e0b", "#10b981"}

RowSet(rows) == {rows[k] : k \in DOMAIN rows}

\* What a row shows: start, duration, size, impact score and colour.
RowData(rows) ==
    {[id |-> rows[k].id, start |-> rows[k].start, duration |-> rows[k].duration,
      size |-> rows[k].size, impactScore |-> rows[k].impactScore,
      fill |-> BarOf(rows[k]).fill] : k \in DOMAIN rows}

\* C22: a change of zoom or of sort mode changes neither the set of visible rows
\* nor any row's data; a change of zoom also leaves the row order, the sort mode
\* and the filter as they are; a change of filter leaves sort mode and zoom.
C22_ControlsFrame ==
    [][ /\ (zoom' # zoom \/ sortMode' # sortMode) =>
             /\ Len(chartData') = Len(chartData)
             /\ RowSet(chartData') = RowSet(chartData)
             /\ RowData(chartData') = RowData(chartData)
        /\ zoom' # zoom =>
             (chartData' = chartData /\ sortMode' = sortMode /\ filterType' = filterType)
        /\ filterType' # filterType => (sortMode' = sortMode /\ zoom' = zoom) ]_vars

\* Two rows under a type filter, zoomed, in another order than by start.
C22_Witness ==
    /\ filterType # "All"
    /\ sortMode # "start"
    /\ zoom # 10
    /\ Len(chartData) = 2
    /\ Len(audits.items) = 2
    /\ chartData # chartDataOf(audits, filterType, "start")

\* C23: the zoom factor starts at 1 and stays within [1, 5] whatever the slider
\* is asked for, so zoom > 10 never holds: the resource column is shown, and a
\* marker is only ever placed at or right of the 260 px column plus the 10 px
\* margin.
C23_ZoomInRange ==
    /\ zoom = 10
    /\ [](/\ 10 <= zoom /\ zoom <= 50
          /\ ~isYAxisHidden
          /\ markerPos # <<>> => markerPos[1].x >= 270)

C23_Witness ==
    /\ zoom = 50
    /\ markerPos # <<>>
    /\ markerPos[1].x = 1750
    /\ cursor = <<[width |-> 2350, x |-> 1750]>>

ClaimGauge(category) ==
    IF ~category.present \/ category.score = Null \/ category.score = Undef THEN 0
    ELSE (category.score * 100 + 500) \div 1000

ClaimLabels ==
    <<<<"Performance", "performance">>, <<"Accessibility", "accessibility">>,
      <<"Best Practices", "best-practices">>, <<"SEO", "seo">>>>

\* C24: once ScoreGrid has rendered, without a categories object there is no
\* gauge; with one there are four, in the order performance, accessibility,
\* best-practices, seo, each showing round(score * 100) for a score that is
\* present and 0 for a category or score that is missing or null, always an
\* integer from 0 to 100.
C24_ScoreGridGauges ==
    gridShown =>
        IF ~categories.given THEN gauges = <<>>
        ELSE /\ Len(gauges) = 4
             /\ \A k \in 1..4 :
                   /\ gauges[k].label = ClaimLabels[k][1]
                   /\ gauges[k].score = ClaimGauge(categories.of[ClaimLabels[k][2]])
                   /\ gauges[k].score \in 0..100

\* A missing category, a null score, a score rounded up and one rounded down.
C24_Witness ==
    /\ gridShown
    /\ categories.given
    /\ ~categories.of["performance"].present
    /\ categories.of["accessibility"] = [present |-> TRUE, score |-> Null]
    /\ categories.of["best-practices"] = [present |-> TRUE, score |-> 125]
    /\ categories.of["seo"] = [present |-> TRUE, score |-> 294]
    /\ gauges = <<[label |-> "Performance", score |-> 0],
                  [label |-> "Accessibility", score |-> 0],
                  [label |-> "Best Practices", score |-> 13],
                  [label |-> "SEO", score |-> 29]>>

====
